---- MODULE Spec2Model ----
(***************************************************************************)
(* piano-falls: the MIDI timeline build of main.js.                        *)
(*                                                                         *)
(* onFileLoaded merges the tracks of a decoded MIDI document into one      *)
(* tick-ordered event list, and showMidi walks that list once, turning     *)
(* ticks into seconds under the tempo events it meets and drawing one      *)
(* rectangle per sounding note into noteGroup.                             *)
(*                                                                         *)
(* Units.  showMidi adds deltaTicks * microsecondsPerBeat * 1e-6 /         *)
(* ticksPerBeat seconds per event.  The model keeps every time value as    *)
(* the exact integer  seconds * 10^6 * ticksPerBeat , so that one second   *)
(* is OneSecond units and the code's increment is deltaTicks *             *)
(* microsecondsPerBeat units.                                              *)
(***************************************************************************)
EXTENDS Integers, Sequences, FiniteSets

\* ---------------------------------------------------------------- bounds
MaxTracks == 2
MaxTrackLen == 2
MaxDelta == 1
MaxTempo == 1
\* the clock stops at MaxClock milliseconds; setInterval hands out MaxTimers ids
MaxClock == 2
MaxTimers == 3
\* documents of up to MaxManyTracks tracks of at most one event
MaxManyTracks == 3
\* documents of one track of up to MaxOneTrackLen events
MaxOneTrackLen == 3

\* -------------------------------------------------------- program constants
\* keyId = noteNumber - 21
KeyOffset == 21
\* makeKeyboard pushes one keyProps entry per keyId in 0..87
NumKeys == 88
\* noteGroup.rect(keyProp.width, 1): a new rectangle is one unit (second) high
NewRectHeight == 1
\* the 1e-6 of the time increment, as its reciprocal
MicrosPerSecond == 1000000

\* ------------------------------------------------------------ input values
\* note numbers on both sides of both ends of the keyboard
NoteNumbers == {20, 21, 108, 109}
TicksPerBeatValues == {480}

NoteOnEvents ==
    [type : {"noteOn"}, deltaTime : 0..MaxDelta, noteNumber : NoteNumbers,
     microsecondsPerBeat : {0}]

NoteOffEvents ==
    [type : {"noteOff"}, deltaTime : 0..MaxDelta, noteNumber : NoteNumbers,
     microsecondsPerBeat : {0}]

SetTempoEvents ==
    [type : {"setTempo"}, deltaTime : 0..MaxDelta, noteNumber : {0},
     microsecondsPerBeat : 0..MaxTempo]

\* every other event type of the decoder is passed over by showMidi
OtherEvents ==
    [type : {"endOfTrack"}, deltaTime : 0..MaxDelta, noteNumber : {0},
     microsecondsPerBeat : {0}]

MidiEvents == NoteOnEvents \cup NoteOffEvents \cup SetTempoEvents \cup OtherEvents

SeqsUpTo(S, n) == UNION {[1..k -> S] : k \in 0..n}

\* the decoded document parseMidi returns
MidiDocuments ==
    [header : [ticksPerBeat : TicksPerBeatValues],
     tracks : SeqsUpTo(SeqsUpTo(MidiEvents, MaxTrackLen), MaxTracks)]

\* -------------------------------------------------------------------- state
VARIABLES
    pc,                  \* position inside the onFileLoaded callback
    midi,                \* the decoded document
    trackIndex,          \* onFileLoaded: index of the next track to merge (0-based)
    mergedTracks,        \* onFileLoaded: the merged event list
    microsecondsPerBeat, \* showMidi: current tempo
    rectsOn,             \* showMidi: noteNumber -> index of its open rectangle
    time,                \* showMidi: elapsed time (units of the header comment)
    lastTicks,           \* showMidi: ticks of the previous event
    cursor,              \* showMidi: number of merged events consumed
    noteGroup,           \* the rectangles drawn, in creation order
    isPlaying,           \* isPlaying
    playTimer,           \* the id setInterval returned to play()
    timers,              \* the browser's scheduled interval timers (their ids)
    timerCount,          \* how many ids setInterval has handed out
    playHead,            \* playHead, in milliseconds (the code keeps seconds)
    lastUpdateTime,      \* lastUpdateTime, in milliseconds
    now,                 \* what performance.now() returns
    keyFill              \* keyId -> fill that pressKey / releaseKey gave its rect

uiVars == <<isPlaying, playTimer, timers, timerCount, playHead, lastUpdateTime,
            now, keyFill>>

buildVars == <<pc, midi, trackIndex, mergedTracks, microsecondsPerBeat,
               rectsOn, time, lastTicks, cursor, noteGroup>>

vars == <<pc, midi, trackIndex, mergedTracks, microsecondsPerBeat,
          rectsOn, time, lastTicks, cursor, noteGroup, uiVars>>

showVars == <<microsecondsPerBeat, rectsOn, time, lastTicks, cursor, noteGroup>>

\* ------------------------------------------------------------------ helpers
\* mutant: the division by ticksPerBeat left out of the time step
OneSecondNoTicksPerBeat == MicrosPerSecond

OneSecond == MicrosPerSecond * midi.header.ticksPerBeat

\* colors[track] for colors = ['#0A6', '#079']
Colors(track) ==
    CASE track = 0 -> "#0A6"
      [] track = 1 -> "#079"
      [] OTHER -> "undefined"

\* the tagged events of one track: ticks is the running sum of deltaTime,
\* track the 0-based track index; pos is the event object's identity (its
\* place in the track), which the code has by reference
RECURSIVE TagTrack(_, _, _, _)
TagTrack(track, index, i, ticks) ==
    IF i > Len(track) THEN <<>>
    ELSE LET t == ticks + track[i].deltaTime
             ev == [type |-> track[i].type,
                    deltaTime |-> track[i].deltaTime,
                    noteNumber |-> track[i].noteNumber,
                    microsecondsPerBeat |-> track[i].microsecondsPerBeat,
                    ticks |-> t, track |-> index, pos |-> i]
         IN <<ev>> \o TagTrack(track, index, i + 1, t)

\* makeKeyboard's first loop: one key per keyId, counting white and black
\* keys apart (xPos, width and height follow from isBlack, keyId, subIndex)
\* mutant: the black keys of an octave counted from C instead of from A
IsBlackKeyFromC(keyId) == (keyId % 12) \in {1, 3, 6, 8, 10}

IsBlackKey(keyId) == (keyId % 12) \in {1, 4, 6, 9, 11}

RECURSIVE MakeKeys(_, _, _)
MakeKeys(keyId, whiteKeyIndex, blackKeyIndex) ==
    IF keyId >= NumKeys THEN <<>>
    ELSE LET isBlackKey == IsBlackKey(keyId)
             key == [isBlack |-> isBlackKey,
                     color |-> IF isBlackKey THEN "#000" ELSE "#fff",
                     keyId |-> keyId,
                     subIndex |-> IF isBlackKey THEN blackKeyIndex ELSE whiteKeyIndex]
         IN <<key>> \o MakeKeys(keyId + 1,
                                IF isBlackKey THEN whiteKeyIndex ELSE whiteKeyIndex + 1,
                                IF isBlackKey THEN blackKeyIndex + 1 ELSE blackKeyIndex)

\* keyProps as init() leaves it: a JavaScript array, indexed from 0.  Nothing
\* pushes to it or assigns it after makeKeyboard has returned.
keyProps ==
    LET keys == MakeKeys(0, 0, 0)
    IN [keyId \in 0..(Len(keys) - 1) |-> keys[keyId + 1]]

\* mutant: the comparator with its operands swapped
CompareTicksReversed(a, b) == b.ticks - a.ticks

\* function(a, b){return a['ticks'] - b['ticks']}
CompareTicks(a, b) == a.ticks - b.ticks

\* mutant: an unstable sort, which puts an element before its equals
RECURSIVE InsertSortedUnstable(_, _)
InsertSortedUnstable(sorted, ev) ==
    IF sorted = <<>> THEN <<ev>>
    ELSE IF CompareTicks(ev, sorted[Len(sorted)]) > 0 THEN Append(sorted, ev)
    ELSE Append(InsertSortedUnstable(SubSeq(sorted, 1, Len(sorted) - 1), ev),
                sorted[Len(sorted)])

\* Array.prototype.sort is stable (ECMAScript 2019): an element goes after
\* every element it does not compare below
RECURSIVE InsertSorted(_, _)
InsertSorted(sorted, ev) ==
    IF sorted = <<>> THEN <<ev>>
    ELSE IF CompareTicks(ev, sorted[Len(sorted)]) >= 0 THEN Append(sorted, ev)
    ELSE Append(InsertSorted(SubSeq(sorted, 1, Len(sorted) - 1), ev),
                sorted[Len(sorted)])

\* mutant: the sort left out
SortByTicksSkipped(events) == events

RECURSIVE SortByTicks(_)
SortByTicks(events) ==
    IF events = <<>> THEN <<>>
    ELSE InsertSorted(SortByTicks(SubSeq(events, 1, Len(events) - 1)),
                      events[Len(events)])

\* ---------------------------------------------------------------- initial
\* init() has run: the keyboard is made, the file is requested and play()
\* has started the timer at clock 0; the file has not arrived yet
UIInit ==
    /\ isPlaying = TRUE
    /\ playTimer = 1
    /\ timers = {1}
    /\ timerCount = 1
    /\ playHead = 0
    /\ lastUpdateTime = 0
    /\ now = 0
    /\ keyFill = <<>>

Init ==
    /\ pc = "merge"
    /\ midi \in MidiDocuments
    /\ trackIndex = 0
    /\ mergedTracks = <<>>
    /\ microsecondsPerBeat = 0
    /\ rectsOn = <<>>
    /\ time = 0
    /\ lastTicks = 0
    /\ cursor = 0
    /\ noteGroup = <<>>
    /\ UIInit

\* ------------------------------------------------------------ onFileLoaded
\* mutant: `let time = 0` hoisted out of the track loop, so that a track's
\* ticks run on from the end of the track before it
MergeTrackRunningOn ==
    /\ pc = "merge"
    /\ trackIndex < Len(midi.tracks)
    /\ mergedTracks' = mergedTracks \o
                       TagTrack(midi.tracks[trackIndex + 1], trackIndex, 1,
                                IF mergedTracks = <<>> THEN 0
                                ELSE mergedTracks[Len(mergedTracks)].ticks)
    /\ trackIndex' = trackIndex + 1
    /\ UNCHANGED <<pc, midi, uiVars, showVars>>

\* one pass of the outer loop: tag and push every event of one track
MergeTrack ==
    /\ pc = "merge"
    /\ trackIndex < Len(midi.tracks)
    /\ mergedTracks' = mergedTracks \o
                       TagTrack(midi.tracks[trackIndex + 1], trackIndex, 1, 0)
    /\ trackIndex' = trackIndex + 1
    /\ UNCHANGED <<pc, midi, uiVars, showVars>>

\* mutant: showMidi starting at a default tempo instead of 0
SortMergedDefaultTempo ==
    /\ pc = "merge"
    /\ trackIndex = Len(midi.tracks)
    /\ mergedTracks' = SortByTicks(mergedTracks)
    /\ microsecondsPerBeat' = MaxTempo
    /\ rectsOn' = <<>>
    /\ time' = 0
    /\ lastTicks' = 0
    /\ cursor' = 0
    /\ pc' = "show"
    /\ UNCHANGED <<midi, uiVars, trackIndex, noteGroup>>

\* mergedTracks.sort(...), then the call of showMidi up to its loop
SortMerged ==
    /\ pc = "merge"
    /\ trackIndex = Len(midi.tracks)
    /\ mergedTracks' = SortByTicks(mergedTracks)
    /\ microsecondsPerBeat' = 0
    /\ rectsOn' = <<>>
    /\ time' = 0
    /\ lastTicks' = 0
    /\ cursor' = 0
    /\ pc' = "show"
    /\ UNCHANGED <<midi, uiVars, trackIndex, noteGroup>>

\* ---------------------------------------------------------------- showMidi
HasNext == pc = "show" /\ cursor < Len(mergedTracks)
midiEvent == mergedTracks[cursor + 1]

\* mutant: time taken as ticks times the current tempo, not accumulated
AdvanceAbsolute ==
    /\ lastTicks' = midiEvent.ticks
    /\ time' = midiEvent.ticks * microsecondsPerBeat
    /\ cursor' = cursor + 1

\* lines 130-132, common to every iteration
Advance ==
    /\ lastTicks' = midiEvent.ticks
    /\ time' = time + (midiEvent.ticks - lastTicks) * microsecondsPerBeat
    /\ cursor' = cursor + 1

\* mutant: open notes kept apart by track
IsOpenOnTrack(noteNumber) ==
    /\ noteNumber \in DOMAIN rectsOn
    /\ noteGroup[rectsOn[noteNumber]].fill = Colors(midiEvent.track)

IsOpen(noteNumber) == noteNumber \in DOMAIN rectsOn

\* mutant: the tempo assigned before the time is advanced
ShowSetTempoRetroactive ==
    /\ HasNext
    /\ midiEvent.type = "setTempo"
    /\ lastTicks' = midiEvent.ticks
    /\ time' = time + (midiEvent.ticks - lastTicks) * midiEvent.microsecondsPerBeat
    /\ cursor' = cursor + 1
    /\ microsecondsPerBeat' = midiEvent.microsecondsPerBeat
    /\ UNCHANGED <<pc, midi, uiVars, trackIndex, mergedTracks, rectsOn, noteGroup>>

ShowSetTempo ==
    /\ HasNext
    /\ midiEvent.type = "setTempo"
    /\ Advance
    /\ microsecondsPerBeat' = midiEvent.microsecondsPerBeat
    /\ UNCHANGED <<pc, midi, uiVars, trackIndex, mergedTracks, rectsOn, noteGroup>>

\* mutant: the key looked up by note number, without the offset
NewRectNoOffset == [keyId |-> midiEvent.noteNumber,
                    y |-> time',
                    height |-> NewRectHeight * OneSecond,
                    fill |-> Colors(midiEvent.track)]

\* the rectangle of lines 145-152
NewRect == [keyId |-> midiEvent.noteNumber - KeyOffset,
            y |-> time',
            height |-> NewRectHeight * OneSecond,
            fill |-> Colors(midiEvent.track)]

\* rectsOn[midiEvent.noteNumber] = rect, for the rectangle just appended
PutRectOn == [n \in DOMAIN rectsOn \cup {midiEvent.noteNumber} |->
                 IF n = midiEvent.noteNumber THEN Len(noteGroup) + 1
                 ELSE rectsOn[n]]

\* mutant: no test for an open note, so that a second note-on restarts it
ShowNoteOnRestrike ==
    /\ HasNext
    /\ midiEvent.type = "noteOn"
    /\ Advance
    /\ IF (midiEvent.noteNumber - KeyOffset) \notin DOMAIN keyProps
       THEN UNCHANGED <<rectsOn, noteGroup>>
       ELSE /\ noteGroup' = Append(noteGroup, NewRect)
            /\ rectsOn' = PutRectOn
    /\ UNCHANGED <<pc, midi, uiVars, trackIndex, mergedTracks, microsecondsPerBeat>>

\* mutant: no test for a key of the keyboard
ShowNoteOnAnyKey ==
    /\ HasNext
    /\ midiEvent.type = "noteOn"
    /\ Advance
    /\ IF IsOpen(midiEvent.noteNumber)
       THEN UNCHANGED <<rectsOn, noteGroup>>
       ELSE /\ noteGroup' = Append(noteGroup, NewRect)
            /\ rectsOn' = PutRectOn
    /\ UNCHANGED <<pc, midi, uiVars, trackIndex, mergedTracks, microsecondsPerBeat>>

\* mutant: keyProps[keyId] read without the test of line 141, a TypeError
\* off the keyboard
ShowNoteOnUnguarded ==
    /\ HasNext
    /\ midiEvent.type = "noteOn"
    /\ Advance
    /\ IF IsOpen(midiEvent.noteNumber)
       THEN UNCHANGED <<pc, rectsOn, noteGroup>>
       ELSE IF (midiEvent.noteNumber - KeyOffset) \notin DOMAIN keyProps
            THEN pc' = "error" /\ UNCHANGED <<rectsOn, noteGroup>>
            ELSE /\ noteGroup' = Append(noteGroup, NewRect)
                 /\ rectsOn' = PutRectOn
                 /\ UNCHANGED pc
    /\ UNCHANGED <<midi, uiVars, trackIndex, mergedTracks, microsecondsPerBeat>>

ShowNoteOn ==
    /\ HasNext
    /\ midiEvent.type = "noteOn"
    /\ Advance
    /\ IF \/ IsOpen(midiEvent.noteNumber)
          \/ (midiEvent.noteNumber - KeyOffset) \notin DOMAIN keyProps
       THEN UNCHANGED <<rectsOn, noteGroup>>
       ELSE /\ noteGroup' = Append(noteGroup, NewRect)
            /\ rectsOn' = PutRectOn
    /\ UNCHANGED <<pc, midi, uiVars, trackIndex, mergedTracks, microsecondsPerBeat>>

\* mutant: the whole mapping cleared (rectsOn = {}) instead of one entry
DeleteRectOnAll == <<>>

\* delete rectsOn[midiEvent.noteNumber]
DeleteRectOn == [n \in DOMAIN rectsOn \ {midiEvent.noteNumber} |-> rectsOn[n]]

\* mutant: the height subtraction the wrong way round
ShowNoteOffReversed ==
    /\ HasNext
    /\ midiEvent.type = "noteOff"
    /\ Advance
    /\ IF ~IsOpen(midiEvent.noteNumber)
       THEN UNCHANGED <<rectsOn, noteGroup>>
       ELSE LET r == rectsOn[midiEvent.noteNumber]
            IN /\ noteGroup' = [noteGroup EXCEPT ![r].height = noteGroup[r].y - time']
               /\ rectsOn' = DeleteRectOn
    /\ UNCHANGED <<pc, midi, uiVars, trackIndex, mergedTracks, microsecondsPerBeat>>

\* mutant: the height taken from the time before this event's advance
ShowNoteOffStale ==
    /\ HasNext
    /\ midiEvent.type = "noteOff"
    /\ Advance
    /\ IF ~IsOpen(midiEvent.noteNumber)
       THEN UNCHANGED <<rectsOn, noteGroup>>
       ELSE LET r == rectsOn[midiEvent.noteNumber]
            IN /\ noteGroup' = [noteGroup EXCEPT ![r].height = time - noteGroup[r].y]
               /\ rectsOn' = DeleteRectOn
    /\ UNCHANGED <<pc, midi, uiVars, trackIndex, mergedTracks, microsecondsPerBeat>>

\* mutant: a note-off without an open note draws the note as held since the
\* start of the piece
ShowNoteOffFromStart ==
    /\ HasNext
    /\ midiEvent.type = "noteOff"
    /\ Advance
    /\ IF ~IsOpen(midiEvent.noteNumber)
       THEN /\ noteGroup' =
                 IF (midiEvent.noteNumber - KeyOffset) \in DOMAIN keyProps
                 THEN Append(noteGroup, [NewRect EXCEPT !.y = 0, !.height = time'])
                 ELSE noteGroup
            /\ UNCHANGED rectsOn
       ELSE LET r == rectsOn[midiEvent.noteNumber]
            IN /\ noteGroup' = [noteGroup EXCEPT ![r].height = time' - noteGroup[r].y]
               /\ rectsOn' = DeleteRectOn
    /\ UNCHANGED <<pc, midi, uiVars, trackIndex, mergedTracks, microsecondsPerBeat>>

ShowNoteOff ==
    /\ HasNext
    /\ midiEvent.type = "noteOff"
    /\ Advance
    /\ IF ~IsOpen(midiEvent.noteNumber)
       THEN UNCHANGED <<rectsOn, noteGroup>>
       ELSE LET r == rectsOn[midiEvent.noteNumber]
            IN /\ noteGroup' = [noteGroup EXCEPT ![r].height = time' - noteGroup[r].y]
               /\ rectsOn' = DeleteRectOn
    /\ UNCHANGED <<pc, midi, uiVars, trackIndex, mergedTracks, microsecondsPerBeat>>

ShowOther ==
    /\ HasNext
    /\ midiEvent.type \notin {"setTempo", "noteOn", "noteOff"}
    /\ Advance
    /\ UNCHANGED <<pc, midi, uiVars, trackIndex, mergedTracks,
                   microsecondsPerBeat, rectsOn, noteGroup>>

\* the loop runs out of events and onFileLoaded returns
ShowDone ==
    /\ pc = "show"
    /\ cursor = Len(mergedTracks)
    /\ pc' = "done"
    /\ UNCHANGED <<midi, uiVars, trackIndex, mergedTracks, showVars>>

Next ==
    \/ MergeTrack
    \/ SortMerged
    \/ ShowSetTempo
    \/ ShowNoteOn
    \/ ShowNoteOff
    \/ ShowOther
    \/ ShowDone

Spec == Init /\ [][Next]_vars

\* ------------------------------------------------- playback clock, keyboard
\* JavaScript runs one handler at a time: a timer, key or MIDI handler runs
\* before onFileLoaded has begun or after it has returned
Idle == (pc = "merge" /\ trackIndex = 0) \/ pc = "done"

\* the browser's clock moves on, at any time
ClockTick ==
    /\ now < MaxClock
    /\ now' = now + 1
    /\ UNCHANGED <<buildVars, isPlaying, playTimer, timers, timerCount,
                   playHead, lastUpdateTime, keyFill>>

\* a scheduled interval timer fires.  The two reads of performance.now() are
\* two reads of the clock: the second can be later than the first.
UpdateTime ==
    /\ Idle
    /\ timers # {}
    /\ \E later \in now..(IF now < MaxClock THEN now + 1 ELSE now) :
          /\ playHead' = playHead + (now - lastUpdateTime)
          /\ lastUpdateTime' = later
          /\ now' = later
    /\ UNCHANGED <<buildVars, isPlaying, playTimer, timers, timerCount, keyFill>>

\* mutant: setInterval without keeping the id
PlayLosesTimer ==
    /\ timerCount < MaxTimers
    /\ lastUpdateTime' = now
    /\ timerCount' = timerCount + 1
    /\ timers' = timers \cup {timerCount + 1}
    /\ isPlaying' = TRUE
    /\ UNCHANGED playTimer

Play ==
    /\ timerCount < MaxTimers
    /\ lastUpdateTime' = now
    /\ timerCount' = timerCount + 1
    /\ playTimer' = timerCount + 1
    /\ timers' = timers \cup {timerCount + 1}
    /\ isPlaying' = TRUE

\* mutant: isPlaying cleared with the timer left running
StopKeepsTimer ==
    /\ timers' = timers
    /\ isPlaying' = FALSE
    /\ UNCHANGED <<lastUpdateTime, timerCount, playTimer>>

Stop ==
    /\ timers' = timers \ {playTimer}
    /\ isPlaying' = FALSE
    /\ UNCHANGED <<lastUpdateTime, timerCount, playTimer>>

Pause == IF isPlaying THEN Stop ELSE Play

KeyboardKeys == {" ", "a"}

OnKeyDown(key) ==
    /\ Idle
    /\ IF key = " "
       THEN Pause
       ELSE UNCHANGED <<isPlaying, playTimer, timers, timerCount, lastUpdateTime>>
    /\ UNCHANGED <<buildVars, playHead, now, keyFill>>

\* ------------------------------------------------------------- live MIDI in
\* status bytes: note on, note off, and one other (control change)
StatusBytes == {144, 128, 176}
LiveNotes == {20, 21, 22}

SetFill(keyId, fill) ==
    [k \in DOMAIN keyFill \cup {keyId} |-> IF k = keyId THEN fill ELSE keyFill[k]]

\* mutant: the pressed key is also drawn as a note of the waterfall
PressKeyDrawsNote(keyId) ==
    IF keyId \in DOMAIN keyProps
    THEN /\ keyFill' = SetFill(keyId, "#578")
         /\ noteGroup' = Append(noteGroup,
                                [keyId |-> keyId, y |-> playHead,
                                 height |-> NewRectHeight * OneSecond,
                                 fill |-> "#578"])
    ELSE UNCHANGED <<keyFill, noteGroup>>

\* keyProps[keyId] is undefined off the keyboard: key['svg'] raises a
\* TypeError and the handler ends with nothing changed
PressKey(keyId) ==
    /\ IF keyId \in DOMAIN keyProps
       THEN keyFill' = SetFill(keyId, "#578")
       ELSE UNCHANGED keyFill
    /\ UNCHANGED noteGroup

\* mutant: every released key painted as a white key
ReleaseKeyToWhite(keyId) ==
    /\ IF keyId \in DOMAIN keyProps
       THEN keyFill' = SetFill(keyId, "#fff")
       ELSE UNCHANGED keyFill
    /\ UNCHANGED noteGroup

ReleaseKey(keyId) ==
    /\ IF keyId \in DOMAIN keyProps
       THEN keyFill' = SetFill(keyId, keyProps[keyId].color)
       ELSE UNCHANGED keyFill
    /\ UNCHANGED noteGroup

OnMIDIMessage(status, data1) ==
    /\ Idle
    /\ CASE status = 144 -> PressKey(data1 - KeyOffset)
         [] status = 128 -> ReleaseKey(data1 - KeyOffset)
         [] OTHER -> UNCHANGED <<keyFill, noteGroup>>
    /\ UNCHANGED <<pc, midi, trackIndex, mergedTracks, microsecondsPerBeat,
                   rectsOn, time, lastTicks, cursor>>
    /\ UNCHANGED <<isPlaying, playTimer, timers, timerCount, playHead,
                   lastUpdateTime, now>>

\* the fill attribute of a key's rectangle: makeKeyboard gave it key['color']
FillOf(keyId) ==
    IF keyId \in DOMAIN keyFill THEN keyFill[keyId] ELSE keyProps[keyId].color

\* -------------------------------------------------- the page, all handlers
\* documents small enough to be combined with every handler order
UIEvents ==
    {e \in MidiEvents :
        \/ e.type = "noteOn" /\ e.noteNumber = KeyOffset /\ e.deltaTime = 0
        \/ e.type = "noteOff" /\ e.noteNumber = KeyOffset /\ e.deltaTime = MaxDelta
        \/ e.type = "setTempo" /\ e.microsecondsPerBeat = MaxTempo /\ e.deltaTime = 0
        \/ e.type = "endOfTrack" /\ e.deltaTime = 0}

UITempo == CHOOSE e \in UIEvents : e.type = "setTempo"

\* one track: up to MaxTrackLen events, with or without a tempo event first
UIDocuments ==
    [header : [ticksPerBeat : TicksPerBeatValues],
     tracks : {<<track>> : track \in SeqsUpTo(UIEvents, MaxTrackLen)}
              \cup {<<(<<UITempo>> \o track)>> :
                       track \in SeqsUpTo(UIEvents, MaxTrackLen)}]

BuildStart ==
    /\ pc = "merge"
    /\ trackIndex = 0
    /\ mergedTracks = <<>>
    /\ microsecondsPerBeat = 0
    /\ rectsOn = <<>>
    /\ time = 0
    /\ lastTicks = 0
    /\ cursor = 0
    /\ noteGroup = <<>>

InitUI ==
    /\ midi \in UIDocuments
    /\ BuildStart
    /\ UIInit

NextUI ==
    \/ MergeTrack
    \/ SortMerged
    \/ ShowSetTempo
    \/ ShowNoteOn
    \/ ShowNoteOff
    \/ ShowOther
    \/ ShowDone
    \/ ClockTick
    \/ UpdateTime
    \/ \E key \in KeyboardKeys : OnKeyDown(key)
    \/ \E status \in StatusBytes, data1 \in LiveNotes : OnMIDIMessage(status, data1)

SpecUI == InitUI /\ [][NextUI]_vars


\* ----------------------------------------------- one note under one tempo
\* one track: a tempo event and a note-on at tick 0, the note-off of the same
\* note some ticks later, with or without an end-of-track event
RoundTripTempos == {250000, 500000}
RoundTripTicks == {240, 480}
RoundTripTicksPerBeat == {480, 960}

RoundTripTrack(mpb, n, d) ==
    << [type |-> "setTempo", deltaTime |-> 0, noteNumber |-> 0,
        microsecondsPerBeat |-> mpb],
       [type |-> "noteOn", deltaTime |-> 0, noteNumber |-> n,
        microsecondsPerBeat |-> 0],
       [type |-> "noteOff", deltaTime |-> d, noteNumber |-> n,
        microsecondsPerBeat |-> 0] >>

EndOfTrack == [type |-> "endOfTrack", deltaTime |-> 0, noteNumber |-> 0,
               microsecondsPerBeat |-> 0]

RoundTripDocuments ==
    [header : [ticksPerBeat : RoundTripTicksPerBeat],
     tracks : {<<(RoundTripTrack(mpb, n, d) \o tail)>> :
                  mpb \in RoundTripTempos, n \in NoteNumbers,
                  d \in RoundTripTicks, tail \in {<<>>, <<EndOfTrack>>}}]

InitRoundTrip ==
    /\ midi \in RoundTripDocuments
    /\ BuildStart
    /\ UIInit

SpecRoundTrip == InitRoundTrip /\ [][Next]_vars

\* ------------------------------------------- two tracks under a set tempo
\* the first track opens with a tempo event at tick 0, so that every later
\* tick takes time; both tracks then hold up to MaxTrackLen events on the
\* lowest and the highest key
TempoFirstEvents ==
    {e \in NoteOnEvents \cup NoteOffEvents : e.noteNumber - KeyOffset \in DOMAIN keyProps}
    \cup {EndOfTrack}

FirstTempo == [type |-> "setTempo", deltaTime |-> 0, noteNumber |-> 0,
               microsecondsPerBeat |-> MaxTempo]

TempoFirstDocuments ==
    [header : [ticksPerBeat : TicksPerBeatValues],
     tracks : {<<(<<FirstTempo>> \o first), second>> :
                  first \in SeqsUpTo(TempoFirstEvents, MaxTrackLen),
                  second \in SeqsUpTo(TempoFirstEvents, MaxTrackLen)}]

InitTempoFirst ==
    /\ midi \in TempoFirstDocuments
    /\ BuildStart
    /\ UIInit

SpecTempoFirst == InitTempoFirst /\ [][Next]_vars

\* --------------------------------------------------- more than two tracks
\* up to MaxManyTracks tracks, each empty or of one event of any kind
ManyTracksDocuments ==
    [header : [ticksPerBeat : TicksPerBeatValues],
     tracks : SeqsUpTo(SeqsUpTo(MidiEvents, 1), MaxManyTracks)]

InitManyTracks ==
    /\ midi \in ManyTracksDocuments
    /\ BuildStart
    /\ UIInit

\* onFileLoaded is one callback that runs to its end once it has begun
SpecManyTracks == InitManyTracks /\ [][Next]_vars /\ WF_vars(Next)

\* ------------------------------------ the earlier showMidi (part_000:693)
\* it walks the tracks one after the other, each with its own rectsOn, time
\* and tempo, and draws into the same noteGroup.  st holds the locals of the
\* inner loop and the rectangles drawn so far.
OldStart(group) ==
    [rectsOn |-> <<>>, time |-> 0, microsecondsPerBeat |-> 0, noteGroup |-> group]

\* mutant: the step taken at the tempo the event itself sets
OldTimeNewTempo(st, note) ==
    st.time + note.deltaTime * (IF note.type = "setTempo"
                                THEN note.microsecondsPerBeat
                                ELSE st.microsecondsPerBeat)

\* time += note.deltaTime * microsecondsPerBeat * 1e-6 / ticksPerBeat
OldTime(st, note) == st.time + note.deltaTime * st.microsecondsPerBeat

\* one pass of the inner loop
OldEvent(st, note) ==
    LET t == OldTime(st, note)
        keyId == note.noteNumber - KeyOffset
    IN CASE note.type = "setTempo" ->
              [st EXCEPT !.time = t,
                         !.microsecondsPerBeat = note.microsecondsPerBeat]
         [] note.type = "noteOn" ->
              IF \/ note.noteNumber \in DOMAIN st.rectsOn
                 \/ keyId \notin DOMAIN keyProps
              THEN [st EXCEPT !.time = t]
              ELSE [st EXCEPT
                      !.time = t,
                      !.noteGroup = Append(st.noteGroup,
                                           [keyId |-> keyId, y |-> t,
                                            height |-> NewRectHeight * OneSecond,
                                            fill |-> "#056"]),
                      !.rectsOn = [n \in DOMAIN st.rectsOn \cup {note.noteNumber} |->
                                      IF n = note.noteNumber
                                      THEN Len(st.noteGroup) + 1
                                      ELSE st.rectsOn[n]]]
         [] note.type = "noteOff" ->
              IF note.noteNumber \notin DOMAIN st.rectsOn
              THEN [st EXCEPT !.time = t]
              ELSE LET rect == st.rectsOn[note.noteNumber]
                   IN [st EXCEPT
                         !.time = t,
                         !.noteGroup[rect].height = t - st.noteGroup[rect].y,
                         !.rectsOn = [n \in DOMAIN st.rectsOn \ {note.noteNumber} |->
                                         st.rectsOn[n]]]
         [] OTHER -> [st EXCEPT !.time = t]

\* for( let note of track ), from event i on
RECURSIVE OldTrack(_, _, _)
OldTrack(track, i, st) ==
    IF i > Len(track) THEN st
    ELSE OldTrack(track, i + 1, OldEvent(st, track[i]))

\* for( let track of midi.tracks ), from track t on (1-based)
RECURSIVE OldTracks(_, _)
OldTracks(t, group) ==
    IF t > Len(midi.tracks) THEN group
    ELSE OldTracks(t + 1, OldTrack(midi.tracks[t], 1, OldStart(group)).noteGroup)

\* the noteGroup the earlier showMidi leaves for the document
OldShowMidi == OldTracks(1, <<>>)

\* ------------------------------------------------------- one longer track
OneTrackDocuments ==
    [header : [ticksPerBeat : TicksPerBeatValues],
     tracks : {<<track>> : track \in SeqsUpTo(MidiEvents, MaxOneTrackLen)}]

InitOneTrack ==
    /\ midi \in OneTrackDocuments
    /\ BuildStart
    /\ UIInit

SpecOneTrack == InitOneTrack /\ [][Next]_vars

\* =================================================================== claims
\* input events of the document, each named by its track (0-based) and place
InputEvents ==
    UNION {{<<t, i>> : i \in 1..Len(midi.tracks[t + 1])} :
              t \in 0..(Len(midi.tracks) - 1)}

Merged == pc \in {"show", "done"}

SamePayload(ev, in) ==
    /\ ev.type = in.type
    /\ ev.deltaTime = in.deltaTime
    /\ ev.noteNumber = in.noteNumber
    /\ ev.microsecondsPerBeat = in.microsecondsPerBeat

\* the places of mergedTracks holding input event <<t, i>>
PlacesOf(t, i) ==
    {k \in 1..Len(mergedTracks) :
        /\ mergedTracks[k].track = t
        /\ mergedTracks[k].pos = i
        /\ SamePayload(mergedTracks[k], midi.tracks[t + 1][i])}

RECURSIVE SumDeltaTime(_, _)
SumDeltaTime(track, i) ==
    IF i = 0 THEN 0 ELSE SumDeltaTime(track, i - 1) + track[i].deltaTime

\* C1: once onFileLoaded has merged and sorted, mergedTracks is in
\* non-decreasing order of ticks, is as long as all tracks together, and holds
\* every input event exactly once.
C1_MergedSortedPermutation ==
    Merged =>
        /\ \A k \in 1..(Len(mergedTracks) - 1) :
               mergedTracks[k].ticks <= mergedTracks[k + 1].ticks
        /\ Len(mergedTracks) = Cardinality(InputEvents)
        /\ \A e \in InputEvents : Cardinality(PlacesOf(e[1], e[2])) = 1

\* C1 witness: a finished build of two tracks in which the sort moved an event
\* of the second track in front of an event of the first
C1_Witness ==
    /\ pc = "done"
    /\ Len(midi.tracks) = 2
    /\ \E j, k \in 1..Len(mergedTracks) :
          /\ j < k
          /\ mergedTracks[j].track = 1
          /\ mergedTracks[k].track = 0
          /\ mergedTracks[j].ticks < mergedTracks[k].ticks

\* C2: the merge is stable: of two merged events with equal ticks, the one
\* of the lower track comes first, and within a track the earlier one.
C2_StableOnTies ==
    Merged =>
        \A j, k \in 1..Len(mergedTracks) :
            (j < k /\ mergedTracks[j].ticks = mergedTracks[k].ticks) =>
                \/ mergedTracks[j].track < mergedTracks[k].track
                \/ /\ mergedTracks[j].track = mergedTracks[k].track
                   /\ mergedTracks[j].pos < mergedTracks[k].pos

\* C2 witness: ties both across the two tracks and inside one track
C2_Witness ==
    /\ pc = "done"
    /\ \E j, k \in 1..Len(mergedTracks) :
          /\ mergedTracks[j].ticks = mergedTracks[k].ticks
          /\ mergedTracks[j].track < mergedTracks[k].track
    /\ \E j, k \in 1..Len(mergedTracks) :
          /\ mergedTracks[j].ticks = mergedTracks[k].ticks
          /\ mergedTracks[j].track = mergedTracks[k].track
          /\ mergedTracks[j].pos < mergedTracks[k].pos

\* C3: every tagged event carries the sum of the deltaTimes of its own track
\* up to and including itself, and the index of the track it came from.
C3_TicksArePrefixSums ==
    \A k \in 1..Len(mergedTracks) :
        LET ev == mergedTracks[k]
        IN /\ ev.track \in 0..(Len(midi.tracks) - 1)
           /\ ev.pos \in 1..Len(midi.tracks[ev.track + 1])
           /\ SamePayload(ev, midi.tracks[ev.track + 1][ev.pos])
           /\ ev.ticks = SumDeltaTime(midi.tracks[ev.track + 1], ev.pos)

\* C3 witness: an event of the second track whose ticks differ from what a sum
\* running on from the first track would give
C3_Witness ==
    /\ pc = "done"
    /\ Len(midi.tracks) = 2
    /\ SumDeltaTime(midi.tracks[1], Len(midi.tracks[1])) > 0
    /\ \E k \in 1..Len(mergedTracks) :
          /\ mergedTracks[k].track = 1
          /\ mergedTracks[k].pos = 2
          /\ mergedTracks[k].ticks = 2

\* ------------------------------------------------- tempo map, said directly
\* the tempo in force when showMidi reaches merged event k: that of the last
\* setTempo event strictly before it, and 0 when there is none
RECURSIVE RateBefore(_)
RateBefore(k) ==
    IF k <= 1 THEN 0
    ELSE IF mergedTracks[k - 1].type = "setTempo"
         THEN mergedTracks[k - 1].microsecondsPerBeat
         ELSE RateBefore(k - 1)

TicksAt(k) == IF k = 0 THEN 0 ELSE mergedTracks[k].ticks

\* the time of merged event k: every tick span up to it, each at the rate in
\* force before the event that ends the span
RECURSIVE Elapsed(_)
Elapsed(k) ==
    IF k = 0 THEN 0
    ELSE Elapsed(k - 1) + (TicksAt(k) - TicksAt(k - 1)) * RateBefore(k)

Range(f) == {f[x] : x \in DOMAIN f}

\* a rectangle whose height a note-off has set: an emitted NoteInterval with
\* startSeconds = y and endSeconds = y + height
Finalized(r) == r \in 1..Len(noteGroup) /\ r \notin Range(rectsOn)

\* C4: the time showMidi assigns never decreases from one event to the next.
C4_TimeNeverDecreases == [][time' >= time]_vars

\* C4 witness: a finished build in which time advanced under a tempo map
\* with two tempo events of different values
C4_Witness ==
    /\ pc = "done"
    /\ time > 0
    /\ \E j, k \in 1..Len(mergedTracks) :
          /\ mergedTracks[j].type = "setTempo"
          /\ mergedTracks[k].type = "setTempo"
          /\ mergedTracks[j].microsecondsPerBeat # mergedTracks[k].microsecondsPerBeat

\* C5: a setTempo event changes the rate only for the ticks after it: the
\* time of every consumed event, the setTempo event included, is the sum of
\* the tick spans before it at the rate set strictly before each span's end,
\* and the rate in force for the next span is that of the last setTempo
\* consumed.
C5_TempoAppliesAfterEvent ==
    Merged =>
        /\ time = Elapsed(cursor)
        /\ microsecondsPerBeat = RateBefore(cursor + 1)

\* C5 witness: a consumed setTempo event that changes the rate, with ticks
\* passing both before it and between it and the next consumed event
C5_Witness ==
    /\ Merged
    /\ \E k \in 2..(cursor - 1) :
          /\ mergedTracks[k].type = "setTempo"
          /\ mergedTracks[k].microsecondsPerBeat # RateBefore(k)
          /\ mergedTracks[k].ticks > mergedTracks[k - 1].ticks
          /\ mergedTracks[k + 1].ticks > mergedTracks[k].ticks

\* C6 as claimed: every emitted interval ends strictly after it starts.
C6_EndStrictlyAfterStart ==
    \A r \in 1..Len(noteGroup) : Finalized(r) => noteGroup[r].height > 0

\* C6 as amended: every emitted interval ends at or after its start.
C6_EndNotBeforeStart ==
    \A r \in 1..Len(noteGroup) : Finalized(r) => noteGroup[r].height >= 0

\* C6 witness: an interval emitted with no length although time was running:
\* its note-on and note-off fall on the same tick, after time has advanced
C6_Witness ==
    /\ pc = "done"
    /\ microsecondsPerBeat > 0
    /\ \E r \in 1..Len(noteGroup) :
          Finalized(r) /\ noteGroup[r].height = 0 /\ noteGroup[r].y > 0

\* C7: when the build has finished, noteGroup holds no rectangle for a note
\* number that is still open.
C7_OpenNoteAbsentFromOutput ==
    pc = "done" => \A r \in 1..Len(noteGroup) : Finalized(r)

\* ------------------------------------------------ note pairing, said directly
Consumed == 1..cursor

IsNote(k, type, noteNumber) ==
    mergedTracks[k].type = type /\ mergedTracks[k].noteNumber = noteNumber

OnKeyboard(noteNumber) ==
    noteNumber - KeyOffset >= 0 /\ noteNumber - KeyOffset <= NumKeys - 1

\* the last consumed note-off of a note number (0 when there is none) and the
\* consumed note-ons of that number since
LastOff(noteNumber) ==
    LET offs == {k \in Consumed : IsNote(k, "noteOff", noteNumber)}
    IN IF offs = {} THEN 0 ELSE CHOOSE k \in offs : \A j \in offs : j <= k

OnsSinceOff(noteNumber) ==
    {k \in Consumed : k > LastOff(noteNumber) /\ IsNote(k, "noteOn", noteNumber)}

FirstOf(S) == CHOOSE k \in S : \A j \in S : k <= j

\* C8: a note-on for a note number that is open changes neither the
\* rectangles nor the open-note mapping, whichever track it comes from; so
\* the open rectangle of a note number always starts at the time, and has the
\* colour of the track, of the first note-on of that number since its last
\* note-off.
C8_NoteOnWhileOpenIsNoOp ==
    /\ [][(/\ HasNext
           /\ midiEvent.type = "noteOn"
           /\ midiEvent.noteNumber \in DOMAIN rectsOn)
          => (noteGroup' = noteGroup /\ rectsOn' = rectsOn)]_vars
    /\ [](Merged =>
            \A n \in DOMAIN rectsOn :
                /\ OnsSinceOff(n) # {}
                /\ rectsOn[n] \in 1..Len(noteGroup)
                /\ noteGroup[rectsOn[n]].keyId = n - KeyOffset
                /\ noteGroup[rectsOn[n]].y = Elapsed(FirstOf(OnsSinceOff(n)))
                /\ noteGroup[rectsOn[n]].fill =
                       Colors(mergedTracks[FirstOf(OnsSinceOff(n))].track))

\* C8 witness: note-on, a later note-on of the same number from the other
\* track, then the note-off: one rectangle, from the first note-on to the
\* note-off
C8_Witness ==
    /\ pc = "done"
    /\ Len(noteGroup) = 1
    /\ rectsOn = <<>>
    /\ \E i, j, k \in 1..Len(mergedTracks) :
          /\ i < j /\ j < k
          /\ mergedTracks[i].type = "noteOn"
          /\ IsNote(j, "noteOn", mergedTracks[i].noteNumber)
          /\ IsNote(k, "noteOff", mergedTracks[i].noteNumber)
          /\ mergedTracks[i].track # mergedTracks[j].track
          /\ Elapsed(i) < Elapsed(j) /\ Elapsed(j) < Elapsed(k)
          /\ noteGroup[1].y = Elapsed(i)
          /\ noteGroup[1].height = Elapsed(k) - Elapsed(i)
          /\ noteGroup[1].fill = Colors(mergedTracks[i].track)

\* C9: a note-off for a note number that is not open changes neither the
\* rectangles nor the open-note mapping; so every rectangle drawn has a
\* consumed note-on of its note number.
C9_NoteOffWhileClosedIsNoOp ==
    /\ [][(/\ HasNext
           /\ midiEvent.type = "noteOff"
           /\ midiEvent.noteNumber \notin DOMAIN rectsOn)
          => (noteGroup' = noteGroup /\ rectsOn' = rectsOn)]_vars
    /\ [](\A r \in 1..Len(noteGroup) :
            \E k \in Consumed : IsNote(k, "noteOn", noteGroup[r].keyId + KeyOffset))

\* C9 witness: a note-off of a keyboard note that has had no note-on has just
\* been consumed while another note is open
C9_Witness ==
    /\ Merged
    /\ cursor >= 1
    /\ mergedTracks[cursor].type = "noteOff"
    /\ OnKeyboard(mergedTracks[cursor].noteNumber)
    /\ \A k \in Consumed : ~IsNote(k, "noteOn", mergedTracks[cursor].noteNumber)
    /\ rectsOn # <<>>

\* C10: note-on and note-off events of a note number off the keyboard
\* (noteNumber - 21 outside 0..87) change neither the rectangles nor the
\* open-note mapping; no rectangle and no open note is ever off the keyboard.
C10_OffKeyboardIgnored ==
    /\ [][(/\ HasNext
           /\ midiEvent.type \in {"noteOn", "noteOff"}
           /\ ~OnKeyboard(midiEvent.noteNumber))
          => (noteGroup' = noteGroup /\ rectsOn' = rectsOn)]_vars
    /\ [](/\ \A r \in 1..Len(noteGroup) : OnKeyboard(noteGroup[r].keyId + KeyOffset)
          /\ \A n \in DOMAIN rectsOn : OnKeyboard(n))

\* C10 witness: a finished build with a note-on and a later note-off of a
\* note number below the keyboard and a note-on of one above it, time passing
\* between the pair, and nothing drawn
C10_Witness ==
    /\ pc = "done"
    /\ noteGroup = <<>>
    /\ \E j, k \in 1..Len(mergedTracks) :
          /\ j < k
          /\ mergedTracks[j].type = "noteOn"
          /\ mergedTracks[j].noteNumber - KeyOffset < 0
          /\ IsNote(k, "noteOff", mergedTracks[j].noteNumber)
          /\ Elapsed(j) < Elapsed(k)
    /\ \E j \in 1..Len(mergedTracks) :
          /\ mergedTracks[j].type = "noteOn"
          /\ mergedTracks[j].noteNumber - KeyOffset > NumKeys - 1

\* C11: tick spans before the first setTempo event add no time: as long as
\* no setTempo event lies strictly before the last consumed event, time is 0
\* (so a document without setTempo has every event at time 0).
C11_NoTimeBeforeFirstTempo ==
    Merged =>
        ((\A k \in 1..(cursor - 1) : mergedTracks[k].type # "setTempo")
            => time = 0)

\* C11 witness: a finished build whose first setTempo event comes after ticks
\* have passed, and in which time did advance after it
C11_Witness ==
    /\ pc = "done"
    /\ time > 0
    /\ \E k \in 2..Len(mergedTracks) :
          /\ mergedTracks[k].type = "setTempo"
          /\ mergedTracks[k - 1].ticks > 0
          /\ \A j \in 1..(k - 1) : mergedTracks[j].type # "setTempo"

\* --------------------------------------------- rectangles and their events
\* note number n is open when event k is reached: a keyboard note-on of n
\* lies before k with no note-off of n in between
OpenBefore(k, n) ==
    \E j \in 1..(k - 1) :
        /\ IsNote(j, "noteOn", n)
        /\ OnKeyboard(n)
        /\ \A i \in (j + 1)..(k - 1) : ~IsNote(i, "noteOff", n)

\* the consumed note-ons that open an interval, in merged order
Openers ==
    {k \in Consumed :
        /\ mergedTracks[k].type = "noteOn"
        /\ OnKeyboard(mergedTracks[k].noteNumber)
        /\ ~OpenBefore(k, mergedTracks[k].noteNumber)}

\* the note-on that opened the r-th rectangle
OpenerOf(r) == CHOOSE k \in Openers : Cardinality({j \in Openers : j <= k}) = r

\* the consumed note-offs of the opener's note number after it
ClosersOf(r) ==
    {k \in Consumed :
        /\ k > OpenerOf(r)
        /\ IsNote(k, "noteOff", mergedTracks[OpenerOf(r)].noteNumber)}

\* C13: every rectangle is the r-th opening note-on's, and its keyId is that
\* note-on's note number minus 21, within 0..87.
C13_KeyIdIsNoteMinusOffset ==
    Merged =>
        /\ Len(noteGroup) = Cardinality(Openers)
        /\ \A r \in 1..Len(noteGroup) :
              /\ noteGroup[r].keyId = mergedTracks[OpenerOf(r)].noteNumber - KeyOffset
              /\ noteGroup[r].keyId >= 0
              /\ noteGroup[r].keyId <= NumKeys - 1

\* C13 witness: emitted intervals on the lowest and on the highest key
C13_Witness ==
    /\ pc = "done"
    /\ \E r \in 1..Len(noteGroup) : Finalized(r) /\ noteGroup[r].keyId = 0
    /\ \E r \in 1..Len(noteGroup) : Finalized(r) /\ noteGroup[r].keyId = NumKeys - 1

\* C16: an emitted interval starts at the time of its opening note-on, ends
\* at the time of the first later note-off of the same note number, whatever
\* track that note-off is on, and has the colour of the note-on's track.
C16_IntervalPairsOnWithFirstOff ==
    Merged =>
        \A r \in 1..Len(noteGroup) :
            Finalized(r) =>
                /\ ClosersOf(r) # {}
                /\ noteGroup[r].y = Elapsed(OpenerOf(r))
                /\ noteGroup[r].y + noteGroup[r].height = Elapsed(FirstOf(ClosersOf(r)))
                /\ noteGroup[r].fill = Colors(mergedTracks[OpenerOf(r)].track)

\* C16 witness: an interval of positive length closed by a note-off of another
\* track than its note-on's
C16_Witness ==
    /\ pc = "done"
    /\ \E r \in 1..Len(noteGroup) :
          /\ Finalized(r)
          /\ noteGroup[r].height > 0
          /\ mergedTracks[FirstOf(ClosersOf(r))].track # mergedTracks[OpenerOf(r)].track
          /\ noteGroup[r].fill # Colors(mergedTracks[FirstOf(ClosersOf(r))].track)

\* C17: showMidi starts with no note number open, and an event leaves every
\* note number other than its own as it was, open or closed, with the same
\* open rectangle; an event that is no note-on or note-off has no own number.
C17_EventTouchesOnlyItsNote ==
    /\ []((pc = "show" /\ cursor = 0) => rectsOn = <<>>)
    /\ [][HasNext =>
            \A n \in (DOMAIN rectsOn) \cup (DOMAIN rectsOn') :
                (\/ midiEvent.type \notin {"noteOn", "noteOff"}
                 \/ midiEvent.noteNumber # n)
                => /\ n \in DOMAIN rectsOn
                   /\ n \in DOMAIN rectsOn'
                   /\ rectsOn'[n] = rectsOn[n]
                   /\ noteGroup'[rectsOn[n]] = noteGroup[rectsOn[n]]]_vars

\* C17 witness: the note-off of one open note has just been consumed while
\* another note stays open
C17_Witness ==
    /\ Merged
    /\ cursor >= 3
    /\ mergedTracks[cursor].type = "noteOff"
    /\ Len(noteGroup) = 2
    /\ \E r \in 1..2 :
          /\ Finalized(r)
          /\ noteGroup[r].keyId = mergedTracks[cursor].noteNumber - KeyOffset
    /\ \E n \in DOMAIN rectsOn : n # mergedTracks[cursor].noteNumber

\* C18: an event with the same ticks as the event before it is given the
\* same time, whatever lies between them in merged order.
C18_EqualTicksEqualTime ==
    [][(/\ HasNext
        /\ cursor >= 1
        /\ mergedTracks[cursor + 1].ticks = mergedTracks[cursor].ticks)
       => time' = time]_vars

\* C18 witness: three consumed events on one tick, the middle one a setTempo
\* event that changes the rate, with time above 0
C18_Witness ==
    /\ Merged
    /\ \E k \in 2..(cursor - 1) :
          /\ mergedTracks[k].type = "setTempo"
          /\ mergedTracks[k].microsecondsPerBeat # RateBefore(k)
          /\ mergedTracks[k - 1].ticks = mergedTracks[k].ticks
          /\ mergedTracks[k + 1].ticks = mergedTracks[k].ticks
          /\ Elapsed(k + 1) > 0

\* what onFileLoaded makes of the document when nothing else runs: the tracks
\* tagged and concatenated in track order, then sorted
RECURSIVE TaggedFrom(_)
TaggedFrom(index) ==
    IF index >= Len(midi.tracks) THEN <<>>
    ELSE TagTrack(midi.tracks[index + 1], index, 1, 0) \o TaggedFrom(index + 1)

MergedAlone == SortByTicks(TaggedFrom(0))

\* the rectangles of a build that ran alone, from the merged events only: one
\* per opening note-on, ended by the first note-off of its note number
FirstCloser(r) == CHOOSE k \in ClosersOf(r) : \A j \in ClosersOf(r) : k <= j

RectsAlone ==
    [r \in 1..Cardinality(Openers) |->
        [keyId |-> mergedTracks[OpenerOf(r)].noteNumber - KeyOffset,
         y |-> Elapsed(OpenerOf(r)),
         height |-> IF ClosersOf(r) = {} THEN NewRectHeight * OneSecond
                    ELSE Elapsed(FirstCloser(r)) - Elapsed(OpenerOf(r)),
         fill |-> Colors(mergedTracks[OpenerOf(r)].track)]]

HandlerStep ==
    \/ ClockTick
    \/ UpdateTime
    \/ \E key \in KeyboardKeys : OnKeyDown(key)
    \/ \E status \in StatusBytes, data1 \in LiveNotes : OnMIDIMessage(status, data1)

\* C15: a timer tick, a key press or a live MIDI message changes nothing of
\* the build (merged events, open-note mapping, rectangles, time, tempo), and
\* whatever ran before or after it, the finished build holds the merged
\* events and the rectangles of a build that ran alone.  The keyboard
\* geometry keyProps is written by makeKeyboard only.
C15_HandlersLeaveBuildAlone ==
    /\ [][HandlerStep => UNCHANGED buildVars]_vars
    /\ [](pc = "done" => mergedTracks = MergedAlone /\ noteGroup = RectsAlone)

\* C15 witness: a finished build with a closed interval, while the clock ran,
\* the play head moved, playback was paused and a key of the keyboard was
\* pressed by live MIDI input
C15_Witness ==
    /\ pc = "done"
    /\ \E r \in 1..Len(noteGroup) : Finalized(r) /\ noteGroup[r].height > 0
    /\ playHead > 0
    /\ ~isPlaying
    /\ \E k \in DOMAIN keyFill : keyFill[k] = "#578"

\* C20: isPlaying holds exactly when one interval timer is scheduled, which
\* is then playTimer; no two timers are ever scheduled; a press of the space
\* key flips isPlaying.
C20_PlayingIffOneTimer ==
    /\ [](/\ isPlaying <=> Cardinality(timers) = 1
          /\ Cardinality(timers) <= 1
          /\ isPlaying => timers = {playTimer})
    /\ [][OnKeyDown(" ") => isPlaying' = ~isPlaying]_vars

\* C20 witness: playing again on a second timer after a pause, the play head
\* having moved
C20_Witness ==
    /\ isPlaying
    /\ timerCount >= 2
    /\ timers = {timerCount}
    /\ playHead > 0

\* the document of C12: tempo 500000 at tick 0, 480 ticks per beat, the
\* note-off 480 ticks after the note-on, the note on the keyboard
IsRoundTrip ==
    /\ midi.header.ticksPerBeat = 480
    /\ midi.tracks[1][1].microsecondsPerBeat = 500000
    /\ midi.tracks[1][3].deltaTime = 480
    /\ OnKeyboard(midi.tracks[1][2].noteNumber)

\* C12: the finished build of that document holds exactly one interval, from
\* 0 to 0.5 seconds: twice its duration is one second.
C12_HalfSecondRoundTrip ==
    (pc = "done" /\ IsRoundTrip) =>
        /\ Len(noteGroup) = 1
        /\ Finalized(1)
        /\ noteGroup[1].y = 0
        /\ 2 * noteGroup[1].height = OneSecond

\* C12 witness: the build of that document has finished with a closed interval
C12_Witness ==
    /\ pc = "done"
    /\ IsRoundTrip
    /\ cursor = Len(mergedTracks)
    /\ noteGroup # <<>>
    /\ rectsOn = <<>>

\* C19: of two closed rectangles of one key, the earlier one ends no later
\* than the later one starts, whichever tracks their events came from.
C19_SameKeyNeverOverlaps ==
    Merged =>
        \A r1, r2 \in 1..Len(noteGroup) :
            (/\ r1 < r2
             /\ Finalized(r1)
             /\ Finalized(r2)
             /\ noteGroup[r1].keyId = noteGroup[r2].keyId)
            => noteGroup[r1].y + noteGroup[r1].height <= noteGroup[r2].y

\* C19 witness: two closed rectangles of one key, both of positive length,
\* opened from different tracks
C19_Witness ==
    /\ pc = "done"
    /\ \E r1, r2 \in 1..Len(noteGroup) :
          /\ r1 < r2
          /\ Finalized(r1)
          /\ Finalized(r2)
          /\ noteGroup[r1].keyId = noteGroup[r2].keyId
          /\ noteGroup[r1].height > 0
          /\ noteGroup[r2].height > 0
          /\ noteGroup[r1].fill # noteGroup[r2].fill

\* C14: the build is never at an error and never stuck before its end; it
\* reaches its end, and there every event of every track has been merged and
\* consumed.
C14_BuildAlwaysFinishes ==
    /\ [](/\ pc \in {"merge", "show", "done"}
          /\ pc # "done" => ENABLED Next
          /\ pc = "done" => /\ cursor = Len(mergedTracks)
                            /\ Len(mergedTracks) = Cardinality(InputEvents))
    /\ <>(pc = "done")

\* C14 witness: a finished build of three tracks, with a rectangle of the
\* third track (colors[2] is undefined) and a note-on off the keyboard
C14_Witness ==
    /\ pc = "done"
    /\ Len(midi.tracks) = 3
    /\ cursor = 3
    /\ \E r \in 1..Len(noteGroup) : noteGroup[r].fill = Colors(2)
    /\ \E k \in 1..cursor :
          /\ mergedTracks[k].type = "noteOn"
          /\ ~OnKeyboard(mergedTracks[k].noteNumber)

\* C21: playHead never decreases; no step taken while paused changes it; a
\* step adds at most the clock time since lastUpdateTime; and the step that
\* resumes playback leaves playHead as it was with no clock time pending
\* (lastUpdateTime is the clock), so that time spent paused is never added.
C21_PlayHeadSkipsPausedTime ==
    /\ [][playHead' >= playHead]_vars
    /\ [][~isPlaying => playHead' = playHead]_vars
    /\ [][playHead' - playHead <= now - lastUpdateTime]_vars
    /\ [][(~isPlaying /\ isPlaying') =>
              (playHead' = playHead /\ lastUpdateTime' = now')]_vars

\* C21 witness: playback resumed on a new timer with the play head behind the
\* clock, after it had moved before the pause
C21_Witness ==
    /\ isPlaying
    /\ timerCount >= 2
    /\ playHead > 0
    /\ playHead < now
    /\ lastUpdateTime = now

\* the colour key k shows, for the keyboard keys and the fills painted since
Shown(keys, fills, k) == IF k \in DOMAIN fills THEN fills[k] ELSE keys[k].color

\* the fill of every key after the step is what it was before it
SameFills ==
    LET keys == keyProps
    IN \/ keyFill' = keyFill
       \/ \A k \in DOMAIN keys : Shown(keys, keyFill', k) = Shown(keys, keyFill, k)

\* what a live message does to the keys: a status 144 message paints its key
\* in the pressed colour, a status 128 message in the key's own colour, any
\* other message paints nothing; no other key changes
MessagePaints(status, data1) ==
    LET keys == keyProps
        keyId == data1 - KeyOffset
    IN /\ \/ keyFill' = keyFill
          \/ \A k \in DOMAIN keys \ {keyId} :
                Shown(keys, keyFill', k) = Shown(keys, keyFill, k)
       /\ keyId \in DOMAIN keys =>
             Shown(keys, keyFill', keyId) =
                 CASE status = 144 -> "#578"
                   [] status = 128 -> keys[keyId].color
                   [] OTHER -> Shown(keys, keyFill, keyId)

LiveMessage ==
    \E status \in StatusBytes, data1 \in LiveNotes : OnMIDIMessage(status, data1)

\* C22: every key shows the pressed colour or its own colour, which differ;
\* a live message sets its key's colour by its status byte and leaves every
\* other key alone, and nothing but a live message changes a colour.  A key
\* therefore shows the pressed colour exactly when the last status 144 or 128
\* message for it was a status 144 message.
C22_KeyColourFollowsLastMessage ==
    /\ [](LET keys == keyProps
          IN \A k \in DOMAIN keys :
                /\ Shown(keys, keyFill, k) \in {"#578", keys[k].color}
                /\ keys[k].color # "#578")
    /\ [][\A status \in StatusBytes, data1 \in LiveNotes :
             OnMIDIMessage(status, data1) => MessagePaints(status, data1)]_vars
    /\ [][~LiveMessage => SameFills]_vars

\* C22 witness: after presses and a release, a white key is shown pressed
\* and the black key next to it, pressed before, shows its own colour again
C22_Witness ==
    /\ FillOf(0) = "#578"
    /\ keyProps[1].isBlack
    /\ 1 \in DOMAIN keyFill
    /\ FillOf(1) = "#000"

\* the intervals of a sequence of rectangles: key, start and end of each
Intervals(group) ==
    [r \in 1..Len(group) |->
        [keyId |-> group[r].keyId,
         start |-> group[r].y,
         end |-> group[r].y + group[r].height]]

\* C23: for a document of one track, the finished merged build holds the
\* same intervals, in the same order, as the earlier per-track showMidi
\* draws for that document.
C23_OneTrackSameAsPerTrack ==
    (pc = "done" /\ Len(midi.tracks) = 1) =>
        Intervals(noteGroup) = Intervals(OldShowMidi)

\* C23 witness: a finished build of one track in which a tempo has taken
\* effect and a note was closed after a time above 0
C23_Witness ==
    /\ pc = "done"
    /\ Len(midi.tracks) = 1
    /\ Len(OldShowMidi) >= 1
    /\ \E r \in 1..Len(noteGroup) : Finalized(r) /\ noteGroup[r].height > 0

\* the keys of one colour, by keyId
KeysOf(keys, isBlack) == {i \in DOMAIN keys : keys[i].isBlack = isBlack}

\* the subIndex values of the keys of one colour are exactly 0..count-1 and
\* increase with keyId
CountedFromZero(keys, isBlack, count) ==
    /\ Cardinality(KeysOf(keys, isBlack)) = count
    /\ {keys[i].subIndex : i \in KeysOf(keys, isBlack)} = 0..(count - 1)
    /\ \A i, j \in KeysOf(keys, isBlack) :
          i < j => keys[i].subIndex < keys[j].subIndex

\* C24: once init has run, before, during and after a build, keyProps holds
\* 88 entries, entry i with keyId i; a key is black exactly when keyId mod 12
\* is 1, 4, 6, 9 or 11; 52 keys are white with subIndex 0..51 and 36 black
\* with subIndex 0..35, increasing with keyId.
C24_KeyboardLayout ==
    pc \in {"merge", "show", "done"} =>
        LET keys == keyProps
        IN /\ DOMAIN keys = 0..87
           /\ \A i \in DOMAIN keys :
                 /\ keys[i].keyId = i
                 /\ keys[i].isBlack <=> (i % 12) \in {1, 4, 6, 9, 11}
                 /\ keys[i].color = IF keys[i].isBlack THEN "#000" ELSE "#fff"
           /\ CountedFromZero(keys, FALSE, 52)
           /\ CountedFromZero(keys, TRUE, 36)

\* C24 witness: the finished build has drawn on the highest key, the last
\* white one; the last black one lies two keys below it
C24_Witness ==
    /\ pc = "done"
    /\ \E r \in 1..Len(noteGroup) : noteGroup[r].keyId = NumKeys - 1
    /\ keyProps[NumKeys - 1].subIndex = 51
    /\ keyProps[NumKeys - 3].isBlack
    /\ keyProps[NumKeys - 3].subIndex = 35

====
